---- MODULE Spec2Model ----
(***************************************************************************)
(* mjpeg-digest-auth-proxy: the request pipeline assembled by mk_app       *)
(* (src/src/main.rs) and the StreamWithLoggedEnd body wrapper              *)
(* (src/src/mw.rs), as a state machine over a bounded set of concurrent    *)
(* client requests.                                                        *)
(*                                                                         *)
(* A request passes, outermost first: the RqId extension layer, the        *)
(* TraceLayer (make_span_with, on_body_chunk), logged_end_middleware_fn,   *)
(* and the mjpeg handler.  The upstream server, the downstream client and  *)
(* the HTTP server polling the response body are the environment.          *)
(***************************************************************************)
EXTENDS Integers, Sequences, FiniteSets, TLC

\* ---- bounds -------------------------------------------------------------
NReq == 2          \* client requests in flight together (SpecConc)
MaxChunks == 2     \* chunks an upstream body yields before it must end

\* ---- program constants --------------------------------------------------
RqIdInit == 1              \* AtomicU64::new(1)
RqIdFallback == 0          \* map_or_else(|| 0, ..)
OK == 200                  \* StatusCode::OK
UNAUTHORIZED == 401        \* StatusCode::UNAUTHORIZED (digest challenge)
BAD_GATEWAY == 502         \* StatusCode::BAD_GATEWAY
INTERNAL_SERVER_ERROR == 500

Reqs == 1..NReq

\* ---- upstream inputs ----------------------------------------------------
ContentType == <<"content-type", "multipart/x-mixed-replace; boundary=frame">>
JpegType == <<"content-type", "image/jpeg">>
ServerHdr == <<"server", "camera">>
HeaderSets == {{}, {ServerHdr}, {ContentType}, {ContentType, ServerHdr}, {JpegType}}
Statuses == {200, 401, 404, 500, 503}

None == [none |-> TRUE]
NetErr == [kind |-> "err"]
\* An upstream answer to one network attempt: a transport error, or a
\* response; digest says whether a 401 carries a usable Digest challenge.
Answers ==
  {NetErr} \cup
  [kind : {"rs"}, status : Statuses, headers : HeaderSets, digest : BOOLEAN]

\* The upstream behaviours the concurrent specification draws from: a
\* transport error, a Digest challenge, and a good stream.
ConcAnswers ==
  {NetErr,
   [kind |-> "rs", status |-> 401, headers |-> {ServerHdr}, digest |-> TRUE],
   [kind |-> "rs", status |-> 200, headers |-> {ContentType}, digest |-> FALSE]}

\* Chunk payloads (byte sequences) of different content and length.
Payloads == {<<7>>, <<8, 9>>}
ConcPayloads == {<<7>>}
Chunk(bytes) == [ok |-> bytes]
ReadErr == [err |-> TRUE]
IsChunk(item) == "ok" \in DOMAIN item

VARIABLES
  counter,     \* RqId: the shared AtomicU64
  pc,          \* per request: idle, fetch1, fetch2, body, done, cancelled
  id,          \* per request: the id make_span_with put in the span
  attempts,    \* per request: upstream-bound network attempts made
  challenged,  \* per request: the first attempt was answered by a Digest challenge
  up,          \* per request: the upstream response the handler got (u_rs), or None
  resp,        \* per request: the responses returned to the server, in order
  stream,      \* per request: the outbound body stream: none, open, eos, err
  produced,    \* per request: items pulled from the upstream byte stream
  delivered,   \* per request: items handed to the downstream consumer
  upConn,      \* per request: u_rs or its bytes_stream is alive
  events,      \* per request: lifecycle record: open, chunk, ended
  spanRefs,    \* per request: live handles of the request span
  fetches,     \* per request: calls of send_with_digest_auth
  serving      \* axum::serve: serving, draining (after ctrl-c), exited

vars == <<counter, pc, id, attempts, challenged, up, resp, stream, produced,
          delivered, upConn, events, spanRefs, fetches, serving>>

\* ---- RqId (main.rs 66-78) -----------------------------------------------
\* fetch_add(1): returns the previous value and stores the successor in one
\* atomic step.  (The u64 wraps at 2^64, beyond every bound used here.)
RqId_next_reuse(c) == [ret |-> c, val |-> c]
RqId_next(c) == [ret |-> c, val |-> c + 1]

\* ---- make_span_with / mk_app (main.rs 110-139) ----------------------------
\* mk_app adds the RqId extension as the outermost layer, so the trace layer
\* always finds it in the request's extensions.
NoRqIdExt == FALSE
HasRqIdExt == TRUE
\* let id = ext.get::<RqId>().map_or_else(|| 0, |id| id.next())
make_span_id(ext, c) == IF ext THEN RqId_next(c) ELSE [ret |-> RqIdFallback, val |-> c]
\* What the router answers when no route handles the request (Not Found,
\* Method Not Allowed): a bare status.
NoRouteStatuses == {404, 405}
ConcNoRouteStatuses == {404}

\* ---- send_with_digest_auth (main.rs 163-168) ----------------------------
\* After the first answer: retry with an Authorization header iff the answer
\* is a 401 carrying a Digest challenge.
NoRetry(a) == FALSE
NeedsRetry(a) == a.kind = "rs" /\ a.status = UNAUTHORIZED /\ a.digest

\* ---- mjpeg (main.rs 161-192) --------------------------------------------
err_bg == [status |-> BAD_GATEWAY, headers |-> {}, body |-> "empty"]
srv_err == [status |-> INTERNAL_SERVER_ERROR, headers |-> {}, body |-> "empty"]
\* Response::builder(): a fresh builder carries no error and no headers.
Response_builder == [err |-> FALSE, headers |-> {}]
headers_mut(b) == IF b.err THEN None ELSE [some |-> b.headers]
body(b, s) == IF b.err THEN None ELSE [status |-> OK, headers |-> b.headers, body |-> s]

\* Variants of the handler used to test the claims' sensitivity.
\* - forwards whatever status the upstream gave, without the status check
mjpeg_forward(a) ==
  IF a.kind = "err" THEN err_bg
  ELSE [status |-> a.status, headers |-> a.headers, body |-> "upstream"]
\* - refuses an upstream response that has no content-type header
mjpeg_ct_check(a) ==
  IF a.kind = "err" THEN err_bg
  ELSE IF a.status # OK THEN err_bg
  ELSE IF \A h \in a.headers : h[1] # "content-type" THEN err_bg
  ELSE [status |-> OK, headers |-> a.headers, body |-> "upstream"]
\* - copies only the content-type header
mjpeg_ct_only(a) ==
  IF a.kind = "err" THEN err_bg
  ELSE IF a.status # OK THEN err_bg
  ELSE [status |-> OK,
        headers |-> {h \in a.headers : h[1] = "content-type"},
        body |-> "upstream"]
\* - answers a failed fetch with the local-error status
mjpeg_srv(a) ==
  IF a.kind = "err" THEN srv_err
  ELSE IF a.status # OK THEN err_bg
  ELSE [status |-> OK, headers |-> a.headers, body |-> "upstream"]
\* - puts the upstream's headers on the 502
mjpeg_leak(a) ==
  IF a.kind = "err" THEN err_bg
  ELSE IF a.status # OK THEN [err_bg EXCEPT !.headers = a.headers]
  ELSE [status |-> OK, headers |-> a.headers, body |-> "upstream"]
\* - keeps the upstream body behind the 502
mjpeg_err_body(a) ==
  IF a.kind = "err" THEN err_bg
  ELSE IF a.status # OK THEN [err_bg EXCEPT !.body = "upstream"]
  ELSE [status |-> OK, headers |-> a.headers, body |-> "upstream"]

\* The handler from the fetch result on (lines 169-191); a is the final
\* answer of send_with_digest_auth.
mjpeg(a) ==
  IF a.kind = "err" THEN err_bg
  ELSE IF a.status # OK THEN err_bg
  ELSE LET b == Response_builder IN
       IF headers_mut(b) = None THEN srv_err
       ELSE LET b2 == [b EXCEPT !.headers = a.headers]
                rs == body(b2, "upstream")
            IN IF rs # None THEN rs ELSE srv_err

\* ---- StreamWithLoggedEnd (mw.rs 16-39) ----------------------------------
\* poll_next hands on what the inner stream yields.
poll_next_truncate(item) == IF IsChunk(item) THEN Chunk(Tail(item.ok)) ELSE item
poll_next_swallow(item) == IF IsChunk(item) THEN item ELSE Chunk(<<>>)
StreamWithLoggedEnd_poll_next(item) == item
\* Drop: "stream ended" is logged in the span.
drop_no_log(ev) == ev
drop_log_first(ev) == <<"ended">> \o ev
StreamWithLoggedEnd_drop(ev) == Append(ev, "ended")
\* on_body_chunk (main.rs 124-129): one trace event per data chunk.
on_body_chunk(ev, item) == IF IsChunk(item) THEN Append(ev, "chunk") ELSE ev

\* ---- initial state ------------------------------------------------------
Init ==
  /\ counter = RqIdInit
  /\ pc = [r \in Reqs |-> "idle"]
  /\ id = [r \in Reqs |-> RqIdFallback]
  /\ attempts = [r \in Reqs |-> 0]
  /\ challenged = [r \in Reqs |-> FALSE]
  /\ up = [r \in Reqs |-> None]
  /\ resp = [r \in Reqs |-> <<>>]
  /\ stream = [r \in Reqs |-> "none"]
  /\ produced = [r \in Reqs |-> <<>>]
  /\ delivered = [r \in Reqs |-> <<>>]
  /\ upConn = [r \in Reqs |-> FALSE]
  /\ events = [r \in Reqs |-> <<>>]
  /\ spanRefs = [r \in Reqs |-> 0]
  /\ fetches = [r \in Reqs |-> 0]
  /\ serving = "serving"

\* ---- actions ------------------------------------------------------------
\* A request enters the service: make_span_with takes the next id and opens
\* the span (main.rs 110-123); the handler starts and sends the first,
\* unauthenticated GET (main.rs 163-167).
make_span_with(r) ==
  /\ pc[r] = "idle"
  /\ serving = "serving"
  /\ LET n == make_span_id(HasRqIdExt, counter) IN
       /\ id' = [id EXCEPT ![r] = n.ret]
       /\ counter' = n.val
  /\ events' = [events EXCEPT ![r] = Append(@, "open")]
  /\ spanRefs' = [spanRefs EXCEPT ![r] = 1]
  /\ fetches' = [fetches EXCEPT ![r] = 1]
  /\ attempts' = [attempts EXCEPT ![r] = 1]
  /\ pc' = [pc EXCEPT ![r] = "fetch1"]
  /\ UNCHANGED <<challenged, up, resp, stream, produced, delivered, upConn,
                 serving>>

\* A request that no route handles (another path or method) passes the same
\* layers: it takes an id and opens the span, the router answers with a bare
\* status, and logged_end_middleware_fn wraps that response's empty body.
no_route(r, S) ==
  /\ pc[r] = "idle"
  /\ serving = "serving"
  /\ LET n == make_span_id(HasRqIdExt, counter) IN
       /\ id' = [id EXCEPT ![r] = n.ret]
       /\ counter' = n.val
  /\ events' = [events EXCEPT ![r] = Append(@, "open")]
  /\ spanRefs' = [spanRefs EXCEPT ![r] = 2]
  /\ \E st \in S :
       resp' = [resp EXCEPT ![r] =
                  Append(@, [status |-> st, headers |-> {}, body |-> "empty"])]
  /\ stream' = [stream EXCEPT ![r] = "open"]
  /\ pc' = [pc EXCEPT ![r] = "body"]
  /\ UNCHANGED <<attempts, challenged, up, produced, delivered, upConn,
                 fetches, serving>>

\* The handler returns rs for the final answer a; logged_end_middleware_fn
\* (mw.rs 40-44) wraps its body in a StreamWithLoggedEnd holding the span.
Return(r, a) ==
  LET rs == mjpeg(a) IN
  /\ up' = [up EXCEPT ![r] = IF a.kind = "rs"
                             THEN [status |-> a.status, headers |-> a.headers]
                             ELSE None]
  /\ resp' = [resp EXCEPT ![r] = Append(@, rs)]
  /\ upConn' = [upConn EXCEPT ![r] = (rs.body = "upstream")]
  /\ stream' = [stream EXCEPT ![r] = "open"]
  /\ spanRefs' = [spanRefs EXCEPT ![r] = @ + 1]
  /\ pc' = [pc EXCEPT ![r] = "body"]

\* The first attempt is answered (or fails).
FirstAnswer(r, A) ==
  /\ pc[r] = "fetch1"
  /\ \E a \in A :
       /\ challenged' = [challenged EXCEPT ![r] =
                           a.kind = "rs" /\ a.status = UNAUTHORIZED /\ a.digest]
       /\ IF NeedsRetry(a)
          THEN /\ attempts' = [attempts EXCEPT ![r] = @ + 1]
               /\ pc' = [pc EXCEPT ![r] = "fetch2"]
               /\ UNCHANGED <<up, resp, upConn, stream, spanRefs>>
          ELSE /\ Return(r, a)
               /\ UNCHANGED attempts
  /\ UNCHANGED <<counter, id, produced, delivered, events, fetches, serving>>

\* A retry step that sends the request again when the transport fails.
SecondAnswer_refetch(r, A) ==
  /\ pc[r] = "fetch2"
  /\ \E a \in A :
       IF a.kind = "err"
       THEN /\ attempts' = [attempts EXCEPT ![r] = @ + 1]
            /\ UNCHANGED <<pc, up, resp, upConn, stream, spanRefs>>
       ELSE /\ Return(r, a)
            /\ UNCHANGED attempts
  /\ UNCHANGED <<counter, id, challenged, produced, delivered, events,
                 fetches, serving>>

\* The authenticated retry is answered (or fails); whatever it is, it is the
\* result of send_with_digest_auth.
SecondAnswer(r, A) ==
  /\ pc[r] = "fetch2"
  /\ \E a \in A : Return(r, a)
  /\ UNCHANGED <<counter, id, attempts, challenged, produced, delivered, events,
                 fetches, serving>>

\* The client goes away while the handler awaits the fetch: the server drops
\* the pending service future; no response and no body wrapper exist yet.
Cancel(r) ==
  /\ pc[r] \in {"fetch1", "fetch2"}
  /\ pc' = [pc EXCEPT ![r] = "cancelled"]
  /\ spanRefs' = [spanRefs EXCEPT ![r] = 0]
  /\ UNCHANGED <<counter, id, attempts, challenged, up, resp, stream, produced,
                 delivered, upConn, events, fetches, serving>>

\* A poll that reads one chunk ahead of the one it hands on.
poll_next_prefetch(r, P) ==
  /\ pc[r] = "body"
  /\ stream[r] = "open"
  /\ resp[r][Len(resp[r])].body = "upstream"
  /\ \E bytes \in P : LET item == Chunk(bytes) IN
       /\ produced' = [produced EXCEPT ![r] = Append(Append(@, item), item)]
       /\ delivered' = [delivered EXCEPT ![r] = Append(@, item)]
       /\ events' = [events EXCEPT ![r] = on_body_chunk(@, item)]
  /\ stream' = [stream EXCEPT ![r] = "eos"]
  /\ UNCHANGED <<counter, pc, id, attempts, challenged, up, resp, upConn,
                 spanRefs, fetches, serving>>

\* The server polls the response body once and the poll is ready.
poll_next(r, P) ==
  /\ pc[r] = "body"
  /\ stream[r] = "open"
  /\ IF resp[r][Len(resp[r])].body = "empty"
     THEN /\ stream' = [stream EXCEPT ![r] = "eos"]
          /\ UNCHANGED <<produced, delivered, events>>
     ELSE \/ /\ Len(produced[r]) < MaxChunks
             /\ \E bytes \in P : LET item == Chunk(bytes) IN
                  /\ produced' = [produced EXCEPT ![r] = Append(@, item)]
                  /\ delivered' = [delivered EXCEPT ![r] =
                                     Append(@, StreamWithLoggedEnd_poll_next(item))]
                  /\ events' = [events EXCEPT ![r] = on_body_chunk(@, item)]
             /\ UNCHANGED stream
          \/ /\ produced' = [produced EXCEPT ![r] = Append(@, ReadErr)]
             /\ delivered' = [delivered EXCEPT ![r] =
                                Append(@, StreamWithLoggedEnd_poll_next(ReadErr))]
             /\ stream' = [stream EXCEPT ![r] = "err"]
             /\ UNCHANGED events
          \/ /\ stream' = [stream EXCEPT ![r] = "eos"]
             /\ UNCHANGED <<produced, delivered, events>>
  /\ UNCHANGED <<counter, pc, id, attempts, challenged, up, resp, upConn,
                 spanRefs, fetches, serving>>

\* A drop of the body wrapper that keeps the upstream response alive.
drop_leak(r) ==
  /\ pc[r] = "body"
  /\ events' = [events EXCEPT ![r] = StreamWithLoggedEnd_drop(@)]
  /\ pc' = [pc EXCEPT ![r] = "done"]
  /\ spanRefs' = [spanRefs EXCEPT ![r] = 0]
  /\ UNCHANGED <<counter, id, attempts, challenged, up, resp, stream, produced,
                 delivered, upConn, fetches, serving>>

\* A drop that leaves the span's handles alive.
drop_keep_span(r) ==
  /\ pc[r] = "body"
  /\ events' = [events EXCEPT ![r] = StreamWithLoggedEnd_drop(@)]
  /\ upConn' = [upConn EXCEPT ![r] = FALSE]
  /\ pc' = [pc EXCEPT ![r] = "done"]
  /\ UNCHANGED <<counter, id, attempts, challenged, up, resp, stream, produced,
                 delivered, spanRefs, fetches, serving>>
\* A drop that closes the upstream responses of all requests.
drop_all(r) ==
  /\ pc[r] = "body"
  /\ events' = [events EXCEPT ![r] = StreamWithLoggedEnd_drop(@)]
  /\ upConn' = [q \in Reqs |-> FALSE]
  /\ pc' = [pc EXCEPT ![r] = "done"]
  /\ spanRefs' = [spanRefs EXCEPT ![r] = 0]
  /\ UNCHANGED <<counter, id, attempts, challenged, up, resp, stream, produced,
                 delivered, fetches, serving>>

\* The response body is dropped: after its end, after a read error, or at any
\* earlier moment when the client disconnects.  Drop logs "stream ended" and
\* then drops the inner stream, and with it the upstream response.
drop(r) ==
  /\ pc[r] = "body"
  /\ events' = [events EXCEPT ![r] = StreamWithLoggedEnd_drop(@)]
  /\ upConn' = [upConn EXCEPT ![r] = FALSE]
  /\ pc' = [pc EXCEPT ![r] = "done"]
  /\ spanRefs' = [spanRefs EXCEPT ![r] = 0]
  /\ UNCHANGED <<counter, id, attempts, challenged, up, resp, stream, produced,
                 delivered, fetches, serving>>

\* ---- axum::serve(..).with_graceful_shutdown(ctrl_c) (main.rs 155-158) ----
InFlight(r) == pc[r] \in {"fetch1", "fetch2", "body"}
\* The shutdown signal arrives: the listener stops accepting.
ctrl_c ==
  /\ serving = "serving"
  /\ serving' = "draining"
  /\ UNCHANGED <<counter, pc, id, attempts, challenged, up, resp, stream,
                 produced, delivered, upConn, events, spanRefs, fetches>>
\* A serve that returns at once on the signal, whatever is in flight.
serve_return_abrupt ==
  /\ serving = "draining"
  /\ serving' = "exited"
  /\ UNCHANGED <<counter, pc, id, attempts, challenged, up, resp, stream,
                 produced, delivered, upConn, events, spanRefs, fetches>>
\* serve returns once every connection it accepted has finished.
serve_return ==
  /\ serving = "draining"
  /\ \A r \in Reqs : ~InFlight(r)
  /\ serving' = "exited"
  /\ UNCHANGED <<counter, pc, id, attempts, challenged, up, resp, stream,
                 produced, delivered, upConn, events, spanRefs, fetches>>

\* One client request against every upstream behaviour, and the shutdown.
Solo == 1..1
Next ==
  \/ ctrl_c
  \/ serve_return
  \/ \E r \in Solo :
    \/ make_span_with(r)
    \/ no_route(r, NoRouteStatuses)
    \/ FirstAnswer(r, Answers)
    \/ SecondAnswer(r, Answers)
    \/ Cancel(r)
    \/ poll_next(r, Payloads)
    \/ drop(r)

Spec == Init /\ [][Next]_vars

\* NReq concurrent client requests, each against ConcAnswers.
NextConc ==
  \E r \in Reqs :
    \/ make_span_with(r)
    \/ no_route(r, ConcNoRouteStatuses)
    \/ FirstAnswer(r, ConcAnswers)
    \/ SecondAnswer(r, ConcAnswers)
    \/ Cancel(r)
    \/ poll_next(r, ConcPayloads)
    \/ drop(r)

SpecConc == Init /\ [][NextConc]_vars

\* ==== properties =========================================================
Returned(r) == Len(resp[r]) > 0
Last(r) == resp[r][Len(resp[r])]
CtValues(h) == {x[2] : x \in {y \in h : y[1] = "content-type"}}
Count(seq, e) == Cardinality({i \in 1..Len(seq) : seq[i] = e})
IsPrefix(s, t) == Len(s) <= Len(t) /\ \A i \in 1..Len(s) : s[i] = t[i]

\* C1: whenever the upstream fetch completed with a status other than 200,
\* the handler has returned exactly one response, and its status is 502
\* (never 200, never the upstream's status).
C1_NonOkIs502 ==
  \A r \in Reqs :
    (up[r] # None /\ up[r].status # OK) =>
      /\ Len(resp[r]) = 1
      /\ resp[r][1].status = BAD_GATEWAY
\* C1 witness: a 401 after the digest retry, answered and finished.
C1_Witness ==
  \E r \in Reqs :
    /\ challenged[r] /\ up[r] # None /\ up[r].status = UNAUTHORIZED
    /\ pc[r] = "done" /\ Len(resp[r]) = 1

C3_PassThrough ==
  \A r \in Reqs :
    (up[r] # None /\ up[r].status = OK /\ CtValues(up[r].headers) # {}) =>
      /\ CtValues(Last(r).headers) = CtValues(up[r].headers)
      /\ IsPrefix(delivered[r], produced[r])
      /\ (stream[r] \in {"eos", "err"} => delivered[r] = produced[r])
\* C3 witness: a stream of MaxChunks chunks relayed to its end.
C3_Witness ==
  \E r \in Reqs :
    /\ up[r] # None /\ up[r].status = OK /\ CtValues(up[r].headers) # {}
    /\ stream[r] = "eos" /\ Len(delivered[r]) = MaxChunks
    /\ delivered[r][1] # delivered[r][MaxChunks]

\* C4 (as claimed): a relayed response has status 200 and, as its only
\* header, the upstream's content-type.
C4_Claimed ==
  \A r \in Reqs :
    (Returned(r) /\ Last(r).body = "upstream") =>
      /\ Last(r).status = OK
      /\ Last(r).headers = {h \in up[r].headers : h[1] = "content-type"}
      /\ Cardinality(Last(r).headers) = 1
\* C4 (amended): a relayed response has status 200 and, as its header set,
\* a copy of the upstream response's whole header set.
C4_HeadersCopied ==
  \A r \in Reqs :
    (Returned(r) /\ Last(r).body = "upstream") =>
      /\ Last(r).status = OK
      /\ Last(r).headers = up[r].headers
\* C4 witness: a relayed response carrying an upstream header other than
\* content-type.
C4_Witness ==
  \E r \in Reqs :
    /\ Returned(r) /\ Last(r).body = "upstream"
    /\ ServerHdr \in Last(r).headers /\ ContentType \in Last(r).headers

\* C5: under every interleaving the ids handed out are pairwise distinct, and
\* each call of RqId::next returns a value greater than every value returned
\* before it.
C5_IdsIncrease ==
  /\ [](\A r, q \in Reqs :
          (r # q /\ pc[r] # "idle" /\ pc[q] # "idle") => id[r] # id[q])
  /\ [][\A r \in Reqs :
          (pc[r] = "idle" /\ pc'[r] # "idle") =>
            \A q \in Reqs : pc[q] # "idle" => id'[r] > id[q]]_vars
\* C5 witness: every request holds an id while all of them are in flight.
C5_Witness ==
  \A r \in Reqs : pc[r] \in {"fetch1", "fetch2", "body"}

\* C6 (as claimed): once a request's span is open, "stream ended" is emitted
\* exactly once on every exit path, a cancellation during the upstream fetch
\* included.
C6_Claimed ==
  \A r \in Reqs :
    /\ Count(events[r], "ended") <= 1
    /\ (pc[r] \in {"done", "cancelled"} => Count(events[r], "ended") = 1)

\* C7: when the body is dropped mid-stream, the upstream response is released
\* and "stream ended" has fired exactly once; after the drop nothing more is
\* pulled from upstream.
C7_AbortReleasesUpstream ==
  /\ [](\A r \in Reqs :
          (pc[r] = "done" /\ Last(r).body = "upstream") =>
            /\ ~upConn[r]
            /\ Count(events[r], "ended") = 1)
  /\ [][\A r \in Reqs :
          pc[r] = "done" =>
            /\ produced'[r] = produced[r]
            /\ delivered'[r] = delivered[r]
            /\ upConn'[r] = upConn[r]
            /\ events'[r] = events[r]]_vars
\* C7 witness: a relay dropped after one chunk, the upstream stream not at its
\* end.
C7_Witness ==
  \E r \in Reqs :
    /\ pc[r] = "done" /\ Last(r).body = "upstream"
    /\ stream[r] = "open" /\ Len(produced[r]) = 1 /\ ~upConn[r]

\* C8: when the first GET is answered by a Digest challenge, exactly two
\* upstream attempts are made for the request, and when the authenticated
\* retry is answered 200 the client gets the single 200 relayed response.
C8_OneRetry ==
  \A r \in Reqs :
    /\ attempts[r] <= 2
    /\ (challenged[r] => attempts[r] = 2)
    /\ (fetches[r] = 1 /\ ~challenged[r] => attempts[r] = 1)
    /\ (challenged[r] /\ up[r] # None /\ up[r].status = OK) =>
         /\ Len(resp[r]) = 1
         /\ resp[r][1].status = OK
         /\ resp[r][1].body = "upstream"
\* C8 witness: a challenged request whose retry was answered 200 and relayed.
C8_Witness ==
  \E r \in Reqs :
    /\ challenged[r] /\ attempts[r] = 2
    /\ up[r] # None /\ up[r].status = OK
    /\ Last(r).status = OK /\ Len(delivered[r]) > 0

\* C9: when the fetch fails without a response, the client gets a single 502
\* and the lifecycle record is open, then exactly one "stream ended", with no
\* chunk event.
C9_UnreachableIs502 ==
  \A r \in Reqs :
    (Returned(r) /\ fetches[r] = 1 /\ up[r] = None) =>
      /\ Len(resp[r]) = 1
      /\ resp[r][1].status = BAD_GATEWAY
      /\ (pc[r] = "body" => events[r] = <<"open">>)
      /\ (pc[r] = "done" => events[r] = <<"open", "ended">>)
\* C9 witness: the first attempt failed and the 502's body has been dropped.
C9_Witness ==
  \E r \in Reqs :
    /\ Returned(r) /\ up[r] = None /\ attempts[r] = 1
    /\ pc[r] = "done" /\ events[r] = <<"open", "ended">>

\* C10: a 500 is returned only when building the response fails locally; a
\* fetch error or a non-200 upstream status gives 502, and neither a missing
\* content-type nor a read error in mid-stream gives 500.
C10_500OnlyLocal ==
  \A r \in Reqs :
    (Returned(r) /\ fetches[r] = 1) =>
      /\ (Last(r).status = INTERNAL_SERVER_ERROR =>
            \/ headers_mut(Response_builder) = None
            \/ body(Response_builder, "upstream") = None)
      /\ ((up[r] = None \/ up[r].status # OK) => Last(r).status = BAD_GATEWAY)
      /\ (stream[r] = "err" => Last(r).status = OK)
\* C10 witness: the authenticated retry failed in transport and was answered
\* 502.
C10_Witness ==
  \E r \in Reqs :
    /\ Returned(r) /\ up[r] = None /\ attempts[r] = 2
    /\ Last(r).status = BAD_GATEWAY

\* C11: after the shutdown signal no new request is taken on, the signal
\* itself changes nothing of a request in flight, and serve has not returned
\* while a request is in flight.
C11_GracefulShutdown ==
  /\ [](serving = "exited" => \A r \in Reqs : ~InFlight(r))
  /\ [][serving # "serving" =>
          \A r \in Reqs : pc[r] = "idle" => pc'[r] = "idle"]_vars
  /\ [][serving' # serving =>
          /\ pc' = pc /\ stream' = stream /\ delivered' = delivered
          /\ upConn' = upConn /\ resp' = resp]_vars
\* C11 witness: the signal has arrived and a relay that has delivered a chunk
\* is still open.
C11_Witness ==
  /\ serving = "draining"
  /\ \E r \in Reqs :
       /\ pc[r] = "body" /\ stream[r] = "open"
       /\ Last(r).body = "upstream" /\ Len(delivered[r]) = 1

\* C12: every 502 of the handler has an empty body and no header, and nothing
\* of the upstream body is pulled or delivered for it.
C12_BareBadGateway ==
  \A r \in Reqs :
    (Returned(r) /\ Last(r).status = BAD_GATEWAY) =>
      /\ Last(r).headers = {}
      /\ Last(r).body = "empty"
      /\ produced[r] = <<>>
      /\ delivered[r] = <<>>
\* C12 witness: an upstream 404 that carried headers, answered by a 502.
C12_Witness ==
  \E r \in Reqs :
    /\ Returned(r) /\ Last(r).status = BAD_GATEWAY
    /\ up[r] # None /\ up[r].status = 404
    /\ up[r].headers = {ContentType, ServerHdr}
    /\ stream[r] = "eos"

\* C13: a read error of the upstream stream is the next item delivered
\* downstream; after it nothing is fetched or read again and the response
\* stays the single 200.
C13_ReadErrorSurfaces ==
  /\ [](\A r \in Reqs :
          stream[r] = "err" =>
            /\ Len(delivered[r]) = Len(produced[r])
            /\ delivered[r][Len(delivered[r])] = ReadErr
            /\ Count(produced[r], ReadErr) = 1
            /\ Len(resp[r]) = 1
            /\ resp[r][1].status = OK)
  /\ [][\A r \in Reqs :
          stream[r] = "err" =>
            /\ attempts'[r] = attempts[r] /\ fetches'[r] = fetches[r]
            /\ resp'[r] = resp[r] /\ stream'[r] = "err"
            /\ produced'[r] = produced[r] /\ delivered'[r] = delivered[r]]_vars
\* C13 witness: a read error after one relayed chunk.
C13_Witness ==
  \E r \in Reqs :
    /\ stream[r] = "err" /\ Len(delivered[r]) = 2
    /\ IsChunk(delivered[r][1]) /\ delivered[r][2] = ReadErr

\* C14: an item is pulled from upstream only within a poll of the body, a
\* poll pulls at most one, and at most one pulled item is not yet handed on.
C14_PullBased ==
  /\ [](\A r \in Reqs :
          /\ Len(delivered[r]) <= Len(produced[r])
          /\ Len(produced[r]) - Len(delivered[r]) <= 1)
  /\ [][\A r \in Reqs :
          produced'[r] # produced[r] =>
            /\ pc[r] = "body" /\ stream[r] = "open"
            /\ Len(produced'[r]) = Len(produced[r]) + 1
            /\ Len(delivered'[r]) = Len(delivered[r]) + 1]_vars
\* C14 witness: two polls have pulled and handed on two chunks.
C14_Witness ==
  \E r \in Reqs :
    /\ pc[r] = "body" /\ stream[r] = "open"
    /\ Len(produced[r]) = 2 /\ Len(delivered[r]) = 2

\* C15: while a response body is being transmitted the request span is open;
\* the span is closed once the request is over, never before, and once closed
\* it stays closed.
SpanOpen(r) == spanRefs[r] > 0
SpanClosed(r) == pc[r] # "idle" /\ spanRefs[r] = 0
C15_SpanCoversBody ==
  /\ [](\A r \in Reqs :
          /\ (InFlight(r) => SpanOpen(r))
          /\ (pc[r] = "body" => spanRefs[r] = 2)
          /\ (SpanClosed(r) <=> pc[r] \in {"done", "cancelled"}))
  /\ [][\A r \in Reqs : SpanClosed(r) => SpanClosed(r)']_vars
\* C15 witness: a relay ended by a read error, its span closed by the drop.
C15_Witness ==
  \E r \in Reqs :
    /\ pc[r] = "done" /\ stream[r] = "err" /\ SpanClosed(r)
    /\ Count(events[r], "ended") = 1

\* C16: a request's record starts with the one open event, "stream ended"
\* comes only last, chunk events lie in between, and a request answered by an
\* error status has no chunk event.
C16_EventOrder ==
  \A r \in Reqs :
    /\ (pc[r] = "idle" <=> events[r] = <<>>)
    /\ \A i \in 1..Len(events[r]) :
         /\ (events[r][i] = "open" <=> i = 1)
         /\ (events[r][i] = "ended" => i = Len(events[r]))
    /\ Count(events[r], "chunk") = Cardinality({i \in 1..Len(delivered[r]) :
                                                  IsChunk(delivered[r][i])})
    /\ (Returned(r) /\ Last(r).status # OK) => Count(events[r], "chunk") = 0
\* C16 witness: open, two chunk events, stream ended.
C16_Witness ==
  \E r \in Reqs : events[r] = <<"open", "chunk", "chunk", "ended">>

\* C17: a request routed to the handler makes one call of the fetch and one or
\* two upstream attempts; once the handler has returned, whatever happens, no
\* further attempt or fetch is made for it; a relayed body is the request's
\* own upstream response.
HandledByMjpeg(r) ==
  \/ pc[r] \in {"fetch1", "fetch2", "cancelled"}
  \/ Returned(r) /\ Last(r).status \notin NoRouteStatuses
C17_OneFetch ==
  /\ [](\A r \in Reqs :
          /\ fetches[r] <= 1 /\ attempts[r] <= 2
          /\ (HandledByMjpeg(r) => fetches[r] = 1 /\ attempts[r] \in {1, 2})
          /\ (pc[r] = "fetch1" => attempts[r] = 1)
          /\ (Returned(r) /\ Last(r).body = "upstream" =>
                fetches[r] = 1 /\ up[r] # None))
  /\ [][\A r \in Reqs :
          Returned(r) =>
            /\ attempts'[r] = attempts[r] /\ fetches'[r] = fetches[r]
            /\ up'[r] = up[r]]_vars
\* C17 witness: one request ended by a read error and another answered 502
\* after a failed retry, one fetch each.
C17_Witness ==
  \E r, q \in Reqs :
    /\ r # q
    /\ stream[r] = "err" /\ fetches[r] = 1
    /\ Returned(q) /\ Last(q).status = BAD_GATEWAY /\ attempts[q] = 2
    /\ fetches[q] = 1

\* C18: every step is the step of one request and leaves all that belongs to
\* any other request unchanged; the counter changes only by the increment of
\* the request that opens its span.
ReqState(r) ==
  <<pc[r], id[r], attempts[r], challenged[r], up[r], resp[r], stream[r],
    produced[r], delivered[r], upConn[r], events[r], spanRefs[r], fetches[r]>>
C18_Isolation ==
  [][\E r \in Reqs :
       /\ \A q \in Reqs \ {r} : ReqState(q)' = ReqState(q)
       /\ \/ counter' = counter
          \/ /\ counter' = counter + 1
             /\ pc[r] = "idle" /\ pc'[r] # "idle"]_vars
\* C18 witness: two relays in flight together, each holding its own upstream
\* response and its own delivered chunk.
C18_Witness ==
  \E r, q \in Reqs :
    /\ r # q
    /\ pc[r] = "body" /\ upConn[r] /\ Len(delivered[r]) = 1
    /\ pc[q] = "body" /\ upConn[q] /\ delivered[q] = <<>>

\* C19: the ids of the n requests that have passed the trace layer are exactly
\* 1..n, the fallback id 0 is never given, and a request with no route or with
\* a 502 takes its id like any other.
Started == {r \in Reqs : pc[r] # "idle"}
C19_IdsDense ==
  /\ {id[r] : r \in Started} = RqIdInit..Cardinality(Started)
  /\ counter = RqIdInit + Cardinality(Started)
  /\ \A r \in Started : id[r] # RqIdFallback
\* C19 witness: all requests have passed, one with no route and one answered
\* 502.
C19_Witness ==
  /\ Started = Reqs
  /\ \E r, q \in Reqs :
       /\ Returned(r) /\ Last(r).status \in NoRouteStatuses
       /\ Returned(q) /\ Last(q).status = BAD_GATEWAY

\* C20: when the handler got an upstream response and answers with an error
\* status, nothing was or is pulled from the upstream body and the upstream
\* response is not held.
C20_ErrorDropsUpstream ==
  \A r \in Reqs :
    (Returned(r) /\ up[r] # None /\ Last(r).status # OK) =>
      /\ produced[r] = <<>>
      /\ delivered[r] = <<>>
      /\ ~upConn[r]
\* C20 witness: an upstream 503 answered by an error whose body is at its end.
C20_Witness ==
  \E r \in Reqs :
    /\ Returned(r) /\ up[r] # None /\ up[r].status = 503
    /\ Last(r).status # OK /\ stream[r] = "eos" /\ pc[r] = "body"

====
